---- MODULE Spec2Model ----
(***************************************************************************)
(* Model of tools/plot_bench.py: the discover -> load -> classify ->       *)
(* derive -> render pipeline of main() and the five chart renderers.       *)
(*                                                                         *)
(* A CSV cell is a sequence of one-character strings, so that int() and    *)
(* float() are modelled as parsers.  A float is an exact rational <<n, d>> *)
(* in lowest terms with d > 0 (binary rounding of doubles is not           *)
(* modelled).  A record (csv.DictReader row) is a function from field      *)
(* names to cells.  What matplotlib draws is modelled as the series the    *)
(* renderer hands to it, stored per artifact in `charts`.                  *)
(***************************************************************************)
EXTENDS Integers, Sequences, FiniteSets, TLC

\* ---------------------------------------------------------------- bounds
MaxFiles == 2
MaxRows == 3
MaxFragRows == 1

\* ------------------------------------------------------- cell vocabulary
\* restval of csv.DictReader: the value of a cell missing from a short row
None == <<"None">>
\* the int 0 that row.get(m, 0) yields for an absent key
Default0 == <<"0">>

Alloc == <<"a", "l", "l", "o", "c">>
Free == <<"f", "r", "e", "e">>

Digits == {"0", "1", "2", "3", "4", "5", "6", "7", "8", "9"}

DigitVal(c) ==
    CASE c = "0" -> 0 [] c = "1" -> 1 [] c = "2" -> 2 [] c = "3" -> 3
      [] c = "4" -> 4 [] c = "5" -> 5 [] c = "6" -> 6 [] c = "7" -> 7
      [] c = "8" -> 8 [] c = "9" -> 9

RECURSIVE DigitsVal(_)
DigitsVal(s) ==
    IF s = <<>> THEN 0
    ELSE 10 * DigitsVal(SubSeq(s, 1, Len(s) - 1)) + DigitVal(s[Len(s)])

AllDigits(s) == \A i \in 1..Len(s) : s[i] \in Digits

RECURSIVE Pow10(_)
Pow10(n) == IF n = 0 THEN 1 ELSE 10 * Pow10(n - 1)

\* ------------------------------------------------------------- rationals
Abs(n) == IF n < 0 THEN -n ELSE n

RECURSIVE GCD(_, _)
GCD(a, b) == IF b = 0 THEN a ELSE GCD(b, a % b)

RatNorm(n, d) ==
    LET s == IF d < 0 THEN -1 ELSE 1
        g == GCD(Abs(n), Abs(d))
    IN  <<(s * n) \div g, (s * d) \div g>>

RatOfInt(n) == <<n, 1>>
RatAdd(a, b) == RatNorm(a[1] * b[2] + b[1] * a[2], a[2] * b[2])
RatSub(a, b) == RatNorm(a[1] * b[2] - b[1] * a[2], a[2] * b[2])
RatMul(a, b) == RatNorm(a[1] * b[1], a[2] * b[2])
\* defined for b # 0 only
RatDiv(a, b) == RatNorm(a[1] * b[2], a[2] * b[1])
RatZero == RatOfInt(0)

\* --------------------------------------------------- int() and float()
\* Both return [err, val]: err is "none" or the exception raised.
\* Modelled grammar: optional sign, digits, and for float one optional ".".
\* (Surrounding whitespace, "_", exponents, inf and nan are not modelled.)
Unsigned(v) == IF v # <<>> /\ v[1] \in {"+", "-"} THEN Tail(v) ELSE v
Sign(v) == IF v # <<>> /\ v[1] = "-" THEN -1 ELSE 1

py_int(v) ==
    IF v = None THEN [err |-> "TypeError", val |-> 0]
    ELSE LET body == Unsigned(v)
         IN  IF body # <<>> /\ AllDigits(body)
             THEN [err |-> "none", val |-> Sign(v) * DigitsVal(body)]
             ELSE [err |-> "ValueError", val |-> 0]

py_float(v) ==
    IF v = None THEN [err |-> "TypeError", val |-> RatZero]
    ELSE LET body == Unsigned(v)
             dots == {i \in 1..Len(body) : body[i] = "."}
             dot  == IF dots = {} THEN Len(body) + 1
                     ELSE CHOOSE i \in dots : TRUE
             ip   == SubSeq(body, 1, dot - 1)
             fp   == SubSeq(body, dot + 1, Len(body))
         IN  IF /\ Cardinality(dots) <= 1
                /\ AllDigits(ip) /\ AllDigits(fp)
                /\ Len(ip) + Len(fp) > 0
             THEN [err |-> "none",
                   val |-> RatNorm(Sign(v) * DigitsVal(ip \o fp), Pow10(Len(fp)))]
             ELSE [err |-> "ValueError", val |-> RatZero]

\* row[k] followed by int()/float(): KeyError when the key is absent
IntField(row, k) ==
    IF k \notin DOMAIN row THEN [err |-> "KeyError", val |-> 0]
    ELSE py_int(row[k])

FloatField(row, k) ==
    IF k \notin DOMAIN row THEN [err |-> "KeyError", val |-> RatZero]
    ELSE py_float(row[k])

\* row.get(k, 0)
Get0(row, k) == IF k \in DOMAIN row THEN row[k] ELSE Default0

\* row.get('op') == op
HasOp(row, op) == "op" \in DOMAIN row /\ row["op"] = op

\* np.mean of a non-empty list of rationals
RECURSIVE RatSum(_)
RatSum(xs) == IF xs = <<>> THEN RatZero ELSE RatAdd(xs[1], RatSum(Tail(xs)))

np_mean(xs) == RatDiv(RatSum(xs), RatOfInt(Len(xs)))

\* sorted(keys) for a finite set of integers
RECURSIVE sorted(_)
sorted(S) ==
    IF S = {} THEN <<>>
    ELSE LET m == CHOOSE x \in S : \A y \in S : x <= y
         IN  <<m>> \o sorted(S \ {m})

Range(s) == {s[i] : i \in 1..Len(s)}

\* first error of a sequence of [err, val] results, "none" if there is none
FirstErr(rs) ==
    IF \A i \in 1..Len(rs) : rs[i].err = "none" THEN "none"
    ELSE rs[CHOOSE i \in 1..Len(rs) :
              /\ rs[i].err # "none"
              /\ \A j \in 1..(i - 1) : rs[j].err = "none"].err

\* ------------------------------------------------------------ load_csv
\* csv.DictReader: the header names the keys; a row with no cells is
\* skipped; a cell missing from a short row is None.  (Cells beyond the
\* header, which DictReader collects under the key None, are not modelled:
\* no input file here has them.)
DictRow(header, cells) ==
    [f \in Range(header) |->
        LET i == CHOOSE j \in 1..Len(header) : header[j] = f
        IN  IF i <= Len(cells) THEN cells[i] ELSE None]

RECURSIVE DictReader(_, _)
DictReader(header, rows) ==
    IF rows = <<>> THEN <<>>
    ELSE IF Head(rows) = <<>> THEN DictReader(header, Tail(rows))
    ELSE <<DictRow(header, Head(rows))>> \o DictReader(header, Tail(rows))

\* a file that glob returned exists, so the path.exists() guard is passed
load_csv(file) == DictReader(file.header, file.rows)

\* all_data.extend(load_csv(csv_file)) over csv_files, in order
RECURSIVE LoadAll(_)
LoadAll(files) ==
    IF files = <<>> THEN <<>>
    ELSE load_csv(Head(files)) \o LoadAll(Tail(files))

\* the emptiness test dropped: the run goes on to the loader
NoInput_unchecked(files) == FALSE

\* `if not csv_files`
NoInput(files) == files = <<>>

\* ------------------------------------------------------------ classifier
IsLatency(row) == "op" \in DOMAIN row
IsFrag(row) == "efficiency_pct" \in DOMAIN row /\ "op" \notin DOMAIN row
IsRss(row) == "cycle" \in DOMAIN row /\ "rss_mib" \in DOMAIN row

\* ------------------------------------------------------------- renderers
\* A renderer returns [raised, notices, artifact, chart]:
\*   raised   "none" or the exception that escapes the renderer,
\*   notices  what it prints on stderr,
\*   artifact the file it saves ("" when it saves none),
\*   chart    the series handed to the plotting library.
NoChart == [kind |-> "none"]
Skip(notices) ==
    [raised |-> "none", notices |-> notices, artifact |-> "", chart |-> NoChart]
Raise(e) ==
    [raised |-> e, notices |-> <<>>, artifact |-> "", chart |-> NoChart]
Save(name, chart) ==
    [raised |-> "none", notices |-> <<>>, artifact |-> name, chart |-> chart]

EmptyAggregate == [requested |-> <<>>, wasted |-> <<>>, efficiency |-> <<>>]

\* the row replaces what its class held instead of joining it
Accumulate_overwrite(size_classes, sc, req, w, e) ==
    [k \in DOMAIN size_classes \cup {sc} |->
        IF k = sc THEN [requested |-> <<req>>, wasted |-> <<w>>,
                        efficiency |-> <<e>>]
        ELSE size_classes[k]]

\* lines 54-58: the row joins the aggregate of its class (created if new)
Accumulate(size_classes, sc, req, w, e) ==
    LET old == IF sc \in DOMAIN size_classes THEN size_classes[sc]
               ELSE EmptyAggregate
        new == [requested  |-> Append(old.requested, req),
                wasted     |-> Append(old.wasted, w),
                efficiency |-> Append(old.efficiency, e)]
    IN  [k \in DOMAIN size_classes \cup {sc} |->
            IF k = sc THEN new ELSE size_classes[k]]

\* lines 49-58: the loop; acc = [err, size_classes]
RECURSIVE GroupBySizeClass(_, _)
GroupBySizeClass(data, acc) ==
    IF data = <<>> THEN acc
    ELSE LET row == Head(data)
         IN  IF "size_class" \notin DOMAIN row
             THEN GroupBySizeClass(Tail(data), acc)
             ELSE LET sc  == py_int(row["size_class"])
                      req == IntField(row, "requested")
                      w   == IntField(row, "wasted")
                      e   == FloatField(row, "efficiency_pct")
                      err == FirstErr(<<sc, req, w, e>>)
                  IN  IF err # "none"
                      THEN [err |-> err, size_classes |-> acc.size_classes]
                      ELSE GroupBySizeClass(Tail(data),
                             [err |-> "none",
                              size_classes |->
                                  Accumulate(acc.size_classes, sc.val,
                                             req.val, w.val, e.val)])

IntsToRats(xs) == [i \in 1..Len(xs) |-> RatOfInt(xs[i])]

\* line 63
SortClasses(size_classes) == sorted(DOMAIN size_classes)

plot_fragmentation(data) ==
    IF data = <<>> THEN Skip(<<"No fragmentation data found">>)
    ELSE LET g == GroupBySizeClass(data, [err |-> "none", size_classes |-> <<>>])
         IN  IF g.err # "none" THEN Raise(g.err)
             ELSE LET classes == SortClasses(g.size_classes)
                  IN  Save("fragmentation",
                        [classes |-> classes,
                         avg_waste |->
                            [i \in 1..Len(classes) |->
                               np_mean(IntsToRats(g.size_classes[classes[i]].wasted))],
                         avg_efficiency |->
                            [i \in 1..Len(classes) |->
                               np_mean(g.size_classes[classes[i]].efficiency)]])

\* [row for row in data if row.get('op') == op]
RowsWithOp(data, op) == SelectSeq(data, LAMBDA row : HasOp(row, op))

\* the last matching record instead of the first
FirstRow_last(rows) == rows[Len(rows)]

\* alloc_data[0], free_data[0]
FirstRow(rows) == rows[1]

metrics == <<"p50_ns", "p95_ns", "p99_ns", "p999_ns">>

\* [float(row.get(m, 0)) for m in ms]
Percentiles(row, ms) == [i \in 1..Len(ms) |-> py_float(Get0(row, ms[i]))]

Vals(rs) == [i \in 1..Len(rs) |-> rs[i].val]

\* line 114
FreeVals(free_data) ==
    IF free_data # <<>> THEN Percentiles(FirstRow(free_data), metrics)
    ELSE [i \in 1..Len(metrics) |-> [err |-> "none", val |-> RatZero]]

plot_latency_comparison(data) ==
    IF data = <<>> THEN Skip(<<"No latency data found">>)
    ELSE LET alloc_data == RowsWithOp(data, Alloc)
             free_data  == RowsWithOp(data, Free)
         IN  IF alloc_data = <<>> THEN Skip(<<"No allocation latency data">>)
             ELSE LET alloc_vals == Percentiles(FirstRow(alloc_data), metrics)
                      free_vals  == FreeVals(free_data)
                      err == FirstErr(alloc_vals \o free_vals)
                  IN  IF err # "none" THEN Raise(err)
                      ELSE Save("latency_percentiles",
                                [alloc_vals |-> Vals(alloc_vals),
                                 free_vals  |-> Vals(free_vals)])

plot_latency_cdf(data) ==
    LET alloc_data == RowsWithOp(data, Alloc)
    IN  IF alloc_data = <<>> THEN Skip(<<>>)
        ELSE LET latencies == Percentiles(FirstRow(alloc_data), metrics)
                 err == FirstErr(latencies)
             IN  IF err # "none" THEN Raise(err)
                 ELSE Save("latency_cdf", [latencies |-> Vals(latencies)])

\* [conv(row[k]) for row in data]
IntColumn(data, k) == [i \in 1..Len(data) |-> IntField(data[i], k)]
FloatColumn(data, k) == [i \in 1..Len(data) |-> FloatField(data[i], k)]

\* the peak RSS taken as the final value instead of the last sample
Growth_peak(rss_values) ==
    LET rss_initial == rss_values[1]
        rss_final   ==
            rss_values[CHOOSE i \in 1..Len(rss_values) :
                \A j \in 1..Len(rss_values) :
                    rss_values[j][1] * rss_values[i][2]
                        <= rss_values[i][1] * rss_values[j][2]]
    IN  IF rss_initial = RatZero
        THEN [err |-> "ZeroDivisionError", rss_initial |-> rss_initial,
              rss_final |-> rss_final, growth_pct |-> RatZero]
        ELSE [err |-> "none", rss_initial |-> rss_initial,
              rss_final |-> rss_final,
              growth_pct |-> RatMul(RatDiv(RatSub(rss_final, rss_initial),
                                           rss_initial), RatOfInt(100))]

\* lines 204-207, for a non-empty rss_values: [err, initial, final, growth]
Growth(rss_values) ==
    LET rss_initial == rss_values[1]
        rss_final   == rss_values[Len(rss_values)]
    IN  IF rss_initial = RatZero
        THEN [err |-> "ZeroDivisionError", rss_initial |-> rss_initial,
              rss_final |-> rss_final, growth_pct |-> RatZero]
        ELSE [err |-> "none", rss_initial |-> rss_initial,
              rss_final |-> rss_final,
              growth_pct |-> RatMul(RatDiv(RatSub(rss_final, rss_initial),
                                           rss_initial), RatOfInt(100))]

plot_rss_over_time(data) ==
    IF data = <<>> THEN Skip(<<"No RSS churn data found">>)
    ELSE LET cycles     == IntColumn(data, "cycle")
             rss_values == FloatColumn(data, "rss_mib")
             allocated  == IntColumn(data, "slabs_allocated")
             recycled   == IntColumn(data, "slabs_recycled")
             err == FirstErr(cycles \o rss_values \o allocated \o recycled)
         IN  IF err # "none" THEN Raise(err)
             ELSE LET g == Growth(Vals(rss_values))
                  IN  IF g.err # "none" THEN Raise(g.err)
                      ELSE Save("rss_over_time",
                                [cycles      |-> Vals(cycles),
                                 rss_values  |-> Vals(rss_values),
                                 rss_initial |-> g.rss_initial,
                                 rss_final   |-> g.rss_final,
                                 growth_pct  |-> g.growth_pct,
                                 allocated   |-> Vals(allocated),
                                 recycled    |-> Vals(recycled)])

\* next((r for r in latency_data if r.get('op') == 'alloc'), {})
AllocRow(latency_data) ==
    LET alloc_data == RowsWithOp(latency_data, Alloc)
    IN  IF alloc_data = <<>> THEN <<>> ELSE FirstRow(alloc_data)

\* lines 239-242: [err, val]
AvgEfficiency(frag_data) ==
    IF frag_data = <<>> THEN [err |-> "none", val |-> RatZero]
    ELSE LET rows == SelectSeq(frag_data,
                        LAMBDA row : "efficiency_pct" \in DOMAIN row)
             efficiencies == FloatColumn(rows, "efficiency_pct")
             err == FirstErr(efficiencies)
         IN  IF err # "none" THEN [err |-> err, val |-> RatZero]
             ELSE IF efficiencies = <<>> THEN [err |-> "none", val |-> RatZero]
             ELSE [err |-> "none", val |-> np_mean(Vals(efficiencies))]

plot_summary_card(latency_data, frag_data) ==
    LET alloc_row == AllocRow(latency_data)
        ps  == Percentiles(alloc_row, <<"p50_ns", "p99_ns", "p999_ns">>)
        eff == AvgEfficiency(frag_data)
        err == FirstErr(ps \o <<eff>>)
    IN  IF err # "none" THEN Raise(err)
        ELSE Save("summary",
                  [p50 |-> ps[1].val, p99 |-> ps[2].val, p999 |-> ps[3].val,
                   avg_efficiency |-> eff.val,
                   waste |-> RatSub(RatOfInt(100), eff.val)])

\* ---------------------------------------------------------------- inputs
\* The input directory: at most MaxFiles files in glob order, holding at
\* most MaxRows data rows in all; the rows of a file follow one schema.
c0 == <<"0">>
c1 == <<"1">>
c2 == <<"2">>
c30 == <<"3", "0">>
c40 == <<"4", "0">>
c60 == <<"6", "0">>
c374 == <<"3", "7", "4">>
c1137 == <<"1", "1", "3", "7">>
c25 == <<"2", "5">>
c50 == <<"5", "0">>
c200 == <<"2", "0", "0">>
c900 == <<"9", "0", "0">>
cBad == <<"n", "/", "a">>
c64 == <<"6", "4">>
c064 == <<"0", "6", "4">>
c128 == <<"1", "2", "8">>
c10 == <<"1", "0">>
c20 == <<"2", "0">>
c54 == <<"5", "4">>
c44 == <<"4", "4">>
c100 == <<"1", "0", "0">>
c28 == <<"2", "8">>
c90_0 == <<"9", "0", ".", "0">>
c80 == <<"8", "0">>
c78_1 == <<"7", "8", ".", "1">>
c100_0 == <<"1", "0", "0", ".", "0">>
c102_4 == <<"1", "0", "2", ".", "4">>
c0_0 == <<"0", ".", "0">>

Schemas ==
    { [header |-> <<"op", "p50_ns", "p95_ns", "p99_ns", "p999_ns">>,
       rows   |-> { <<Alloc, c30, c60, c374, c1137>>,
                    <<Free, c25, c50, c200, c900>> }],
      [header |-> <<"op", "p50_ns">>,
       rows   |-> { <<Alloc, c40>>, <<Alloc, cBad>>, <<Alloc>> }],
      [header |-> <<"op", "cycle", "rss_mib", "slabs_allocated", "slabs_recycled">>,
       rows   |-> { <<Alloc, c0, c100_0, c2, c1>> }],
      [header |-> <<"size_class", "requested", "wasted", "efficiency_pct">>,
       rows   |-> { <<c64, c54, c10, c90_0>>,
                    <<c64, c44, c20, c80>>,
                    <<c128, c100, c28, c78_1>>,
                    <<c064, c54, c10, c78_1>> }],
      [header |-> <<"size_class", "efficiency_pct">>,
       rows   |-> { <<cBad, c90_0>> }],
      [header |-> <<"efficiency_pct">>,
       rows   |-> { <<cBad>> }],
      [header |-> <<"cycle", "rss_mib", "slabs_allocated", "slabs_recycled">>,
       rows   |-> { <<c1, c100_0, c2, c0>>,
                    <<c0, c102_4, c2, c1>>,
                    <<c2, c0_0, c0, c0>> }],
      [header |-> <<"cycle", "rss_mib">>,
       rows   |-> { <<c1, cBad>> }],
      [header |-> <<"threads">>,
       rows   |-> { <<c2>> }] }

SeqsUpTo(S, n) == UNION {[1..k -> S] : k \in 0..n}

\* a data row together with the header of the file it stands in
Rows ==
    UNION { {[header |-> sch.header, cells |-> r] : r \in sch.rows} :
              sch \in Schemas }

\* a file with no data row reads the same under every header
HeaderOnly == [header |-> <<"op">>, rows |-> <<>>]

\* positions after which a new file must start: the header changes
HeaderChanges(rs) ==
    {i \in 1..(Len(rs) - 1) : rs[i].header # rs[i + 1].header}

\* the rows rs cut into files after the positions in cuts
Split(rs, cuts) ==
    LET starts == sorted({1} \cup {c + 1 : c \in cuts})
        end(j) == IF j = Len(starts) THEN Len(rs) ELSE starts[j + 1] - 1
    IN  [j \in 1..Len(starts) |->
            [header |-> rs[starts[j]].header,
             rows   |-> [i \in 1..(end(j) - starts[j] + 1) |->
                            rs[starts[j] + i - 1].cells]]]

\* the directories: the rows in files, after `empties` header-only files
\* (which contribute no record wherever glob lists them)
Directory(rs, cuts, empties) ==
    [i \in 1..empties |-> HeaderOnly]
        \o (IF rs = <<>> THEN <<>> ELSE Split(rs, cuts))

\* ----------------------------------------------------------------- state
VARIABLES
    input_files,    \* the *.csv files of args.input, in glob order
    pc,             \* position in main()
    csv_files,      \* main: csv_files
    all_data,       \* main: all_data
    latency_data,   \* main: latency_data
    frag_data,      \* main: frag_data
    rss_data,       \* main: rss_data
    charts,         \* artifact name -> series drawn, for each file saved
    stderr,         \* notices printed on the error stream
    called,         \* renderers called so far, in order
    raised,         \* [err, where]: the exception that ended the run
    exit_status     \* "none" while running, then "success" or "failure"

vars == <<input_files, pc, csv_files, all_data, latency_data, frag_data,
          rss_data, charts, stderr, called, raised, exit_status>>

NoError == [err |-> "none", where |-> ""]

Init ==
    /\ \E rs \in SeqsUpTo(Rows, MaxRows) :
         \E cuts \in SUBSET (1..(Len(rs) - 1)), empties \in 0..1 :
            /\ HeaderChanges(rs) \subseteq cuts
            /\ Len(Directory(rs, cuts, empties)) <= MaxFiles
            /\ input_files = Directory(rs, cuts, empties)
    /\ pc = "glob"
    /\ csv_files = <<>>
    /\ all_data = <<>>
    /\ latency_data = <<>>
    /\ frag_data = <<>>
    /\ rss_data = <<>>
    /\ charts = <<>>
    /\ stderr = <<>>
    /\ called = <<>>
    /\ raised = NoError
    /\ exit_status = "none"

artifacts == DOMAIN charts

\* lines 295-304: mkdir, glob, and sys.exit(1) when nothing matches
Discover ==
    /\ pc = "glob"
    /\ csv_files' = input_files
    /\ IF NoInput(input_files)
       THEN /\ stderr' = stderr \o <<"No CSV files found",
                                     "Run benchmarks first with --csv flag">>
            /\ exit_status' = "failure"
            /\ pc' = "done"
       ELSE /\ pc' = "load"
            /\ UNCHANGED <<stderr, exit_status>>
    /\ UNCHANGED <<input_files, all_data, latency_data, frag_data, rss_data,
                   charts, called, raised>>

\* lines 306-314: load every file, and sys.exit(1) when no row was read
Load ==
    /\ pc = "load"
    /\ all_data' = LoadAll(csv_files)
    /\ IF all_data' = <<>>
       THEN /\ stderr' = Append(stderr, "No data loaded")
            /\ exit_status' = "failure"
            /\ pc' = "done"
       ELSE /\ pc' = "classify"
            /\ UNCHANGED <<stderr, exit_status>>
    /\ UNCHANGED <<input_files, csv_files, latency_data, frag_data, rss_data,
                   charts, called, raised>>

\* lines 316-319
Classify ==
    /\ pc = "classify"
    /\ latency_data' = SelectSeq(all_data, IsLatency)
    /\ frag_data' = SelectSeq(all_data, IsFrag)
    /\ rss_data' = SelectSeq(all_data, IsRss)
    /\ pc' = "latency_percentiles"
    /\ UNCHANGED <<input_files, csv_files, all_data, charts, stderr, called,
                   raised, exit_status>>

\* What one renderer call does to the output state: an exception that
\* escapes the renderer is recorded, otherwise its notices are printed and
\* its artifact (if any) is saved.
Effect(name, out) ==
    /\ called' = Append(called, name)
    /\ IF out.raised # "none"
       THEN /\ raised' = [err |-> out.raised, where |-> name]
            /\ UNCHANGED charts
       ELSE /\ charts' = IF out.artifact = "" THEN charts
                         ELSE (out.artifact :> out.chart) @@ charts
            /\ UNCHANGED raised

\* One renderer call of main(): skipped when `guard` is false; an exception
\* that escapes the renderer is not caught in main(), so the interpreter
\* prints the traceback and exits with status 1.
Call(at, guard, name, out, next) ==
    /\ pc = at
    /\ IF ~guard
       THEN /\ pc' = next
            /\ UNCHANGED <<charts, stderr, called, raised, exit_status>>
       ELSE /\ Effect(name, out)
            /\ IF out.raised # "none"
               THEN /\ stderr' = Append(stderr, "Traceback")
                    /\ exit_status' = "failure"
                    /\ pc' = "done"
               ELSE /\ stderr' = stderr \o out.notices
                    /\ pc' = next
                    /\ UNCHANGED exit_status
    /\ UNCHANGED <<input_files, csv_files, all_data, latency_data, frag_data,
                   rss_data>>

\* lines 326-327
LatencyComparison ==
    Call("latency_percentiles", latency_data # <<>>, "plot_latency_comparison",
         plot_latency_comparison(latency_data), "latency_cdf")

\* lines 326, 328
LatencyCdf ==
    Call("latency_cdf", latency_data # <<>>, "plot_latency_cdf",
         plot_latency_cdf(latency_data), "fragmentation")

\* lines 330-331
Fragmentation ==
    Call("fragmentation", frag_data # <<>>, "plot_fragmentation",
         plot_fragmentation(frag_data), "rss_over_time")

\* lines 333-334
RssOverTime ==
    Call("rss_over_time", rss_data # <<>>, "plot_rss_over_time",
         plot_rss_over_time(rss_data), "summary")

\* lines 336-337
SummaryCard ==
    Call("summary", latency_data # <<>> \/ frag_data # <<>>, "plot_summary_card",
         plot_summary_card(latency_data, frag_data), "finish")

\* lines 339-340 and the return of main(): exit status 0
Finish ==
    /\ pc = "finish"
    /\ exit_status' = "success"
    /\ pc' = "done"
    /\ UNCHANGED <<input_files, csv_files, all_data, latency_data, frag_data,
                   rss_data, charts, stderr, called, raised>>

Next ==
    \/ Discover
    \/ Load
    \/ Classify
    \/ LatencyComparison
    \/ LatencyCdf
    \/ Fragmentation
    \/ RssOverTime
    \/ SummaryCard
    \/ Finish

Spec == Init /\ [][Next]_vars

\* ------------------------------------------- renderers called directly
\* The renderers are module-level functions: a caller other than main()
\* may hand any list of records to one of them.
Records == {DictRow(r.header, r.cells) : r \in Rows}

InitDirect ==
    /\ input_files = <<>>
    /\ pc = "direct"
    /\ csv_files = <<>>
    /\ all_data = <<>>
    /\ latency_data = <<>>
    /\ frag_data = <<>>
    /\ rss_data = <<>>
    /\ charts = <<>>
    /\ stderr = <<>>
    /\ called = <<>>
    /\ raised = NoError
    /\ exit_status = "none"

\* the call returns to (or raises into) the caller; no process exit
DirectCall(name, out) ==
    /\ Effect(name, out)
    /\ stderr' = stderr \o out.notices
    /\ pc' = "returned"
    /\ UNCHANGED <<input_files, csv_files, all_data, exit_status>>

DirectLatencyComparison ==
    /\ pc = "direct"
    /\ \E data \in SeqsUpTo(Records, MaxRows) :
        /\ latency_data' = data
        /\ DirectCall("plot_latency_comparison", plot_latency_comparison(data))
        /\ UNCHANGED <<frag_data, rss_data>>

DirectLatencyCdf ==
    /\ pc = "direct"
    /\ \E data \in SeqsUpTo(Records, MaxRows) :
        /\ latency_data' = data
        /\ DirectCall("plot_latency_cdf", plot_latency_cdf(data))
        /\ UNCHANGED <<frag_data, rss_data>>

DirectFragmentation ==
    /\ pc = "direct"
    /\ \E data \in SeqsUpTo(Records, MaxRows) :
        /\ frag_data' = data
        /\ DirectCall("plot_fragmentation", plot_fragmentation(data))
        /\ UNCHANGED <<latency_data, rss_data>>

DirectRssOverTime ==
    /\ pc = "direct"
    /\ \E data \in SeqsUpTo(Records, MaxRows) :
        /\ rss_data' = data
        /\ DirectCall("plot_rss_over_time", plot_rss_over_time(data))
        /\ UNCHANGED <<latency_data, frag_data>>

DirectSummaryCard ==
    /\ pc = "direct"
    /\ \E ldata \in SeqsUpTo(Records, MaxRows),
          fdata \in SeqsUpTo(Records, MaxFragRows) :
        /\ latency_data' = ldata
        /\ frag_data' = fdata
        /\ DirectCall("plot_summary_card", plot_summary_card(ldata, fdata))
        /\ UNCHANGED rss_data

NextDirect ==
    \/ DirectLatencyComparison
    \/ DirectLatencyCdf
    \/ DirectFragmentation
    \/ DirectRssOverTime
    \/ DirectSummaryCard

SpecDirect == InitDirect /\ [][NextDirect]_vars

TypeOK ==
    /\ pc \in {"glob", "load", "classify", "latency_percentiles", "latency_cdf",
               "fragmentation", "rss_over_time", "summary", "finish", "done",
               "direct", "returned"}
    /\ exit_status \in {"none", "success", "failure"}
    /\ (pc = "done") = (exit_status # "none")

\* ===================================================================
\* Properties
\* ===================================================================
\* main() has classified the loaded records
Classified == pc \notin {"glob", "load", "classify", "direct", "returned"}
              /\ all_data # <<>>

Called(name) == name \in Range(called)

InGroup(row, group) == row \in Range(group)

GroupsOf(row) ==
    {g \in {"latency", "fragmentation", "rss_churn"} :
        \/ g = "latency" /\ InGroup(row, latency_data)
        \/ g = "fragmentation" /\ InGroup(row, frag_data)
        \/ g = "rss_churn" /\ InGroup(row, rss_data)}

\* C1: after classification every record with the field `op` is in the
\* latency group and in no other group, and every record is in at most one
\* of the three groups.
C1_MutuallyExclusive ==
    Classified =>
        \A i \in 1..Len(all_data) :
            /\ "op" \in DOMAIN all_data[i] => GroupsOf(all_data[i]) = {"latency"}
            /\ Cardinality(GroupsOf(all_data[i])) <= 1

\* C2: with zero *.csv files the run never gets past the discovery step: it
\* loads nothing, classifies nothing, calls no renderer, writes no artifact,
\* and ends with a failure status.
C2_NoInputNoOutput ==
    input_files = <<>> =>
        /\ pc \in {"glob", "done"}
        /\ all_data = <<>> /\ latency_data = <<>>
        /\ frag_data = <<>> /\ rss_data = <<>>
        /\ called = <<>>
        /\ artifacts = {}
        /\ pc = "done" => exit_status = "failure"

C2_Witness ==
    input_files = <<>> /\ pc = "done" /\ exit_status = "failure"

\* C3: a finished run has a failure status exactly when zero input files
\* were found; with at least one file it succeeds, whatever the groups hold.
C3_FailureOnlyWithoutInput ==
    pc = "done" => (exit_status = "failure" <=> input_files = <<>>)

\* the renderers main() goes through, in call order, with their groups
Renderers ==
    <<"plot_latency_comparison", "plot_latency_cdf", "plot_fragmentation",
      "plot_rss_over_time", "plot_summary_card">>

GroupNonEmpty(name) ==
    CASE name \in {"plot_latency_comparison", "plot_latency_cdf"} ->
            latency_data # <<>>
      [] name = "plot_fragmentation" -> frag_data # <<>>
      [] name = "plot_rss_over_time" -> rss_data # <<>>
      [] name = "plot_summary_card" -> latency_data # <<>> \/ frag_data # <<>>

SameGroup(m, n) ==
    {m, n} \subseteq {"plot_latency_comparison", "plot_latency_cdf"}

Position(name) == CHOOSE i \in 1..Len(Renderers) : Renderers[i] = name

\* C4: a run ended by a malformed numeric field (int()/float() failing in
\* one renderer) has still called the renderer of every other non-empty
\* group that comes after the failing one.
C4_MalformedFieldContained ==
    (pc = "done" /\ raised.err \in {"ValueError", "TypeError"}) =>
        \A i \in 1..Len(Renderers) :
            (/\ i > Position(raised.where)
             /\ ~SameGroup(Renderers[i], raised.where)
             /\ GroupNonEmpty(Renderers[i])) => Called(Renderers[i])

\* the list a directly called renderer was given
DirectArg(name) ==
    CASE name \in {"plot_latency_comparison", "plot_latency_cdf"} -> latency_data
      [] name = "plot_fragmentation" -> frag_data
      [] name = "plot_rss_over_time" -> rss_data
      [] OTHER -> <<>>

\* C5: a renderer of a group (latency, fragmentation, rss_churn) called with
\* an empty group writes no artifact, does not raise, and prints a skip
\* notice.
C5_EmptyGroupSkipNotice ==
    (/\ pc = "returned"
     /\ called[1] # "plot_summary_card"
     /\ DirectArg(called[1]) = <<>>) =>
        /\ artifacts = {}
        /\ raised = NoError
        /\ stderr # <<>>

\* --- C6
HasClass(row, c) ==
    "size_class" \in DOMAIN row /\ py_int(row["size_class"]).val = c

ClassRows(c) == SelectSeq(frag_data, LAMBDA row : HasClass(row, c))

RECURSIVE SumWasted(_)
SumWasted(rows) ==
    IF rows = <<>> THEN 0
    ELSE py_int(Head(rows)["wasted"]).val + SumWasted(Tail(rows))

RECURSIVE SumEfficiency(_)
SumEfficiency(rows) ==
    IF rows = <<>> THEN RatZero
    ELSE RatAdd(py_float(Head(rows)["efficiency_pct"]).val,
                SumEfficiency(Tail(rows)))

\* C6: the fragmentation chart has exactly one entry per distinct integer
\* size class of the group, in ascending order, and the mean wasted / mean
\* efficiency of a class times the number of its records equals the sum of
\* `wasted` / `efficiency_pct` over all records of that class.
C6_PerClassMeans ==
    "fragmentation" \in artifacts =>
        LET ch == charts["fragmentation"]
            n  == Len(ch.classes)
        IN  /\ Range(ch.classes) =
                  {py_int(frag_data[i]["size_class"]).val :
                      i \in {j \in 1..Len(frag_data) :
                                "size_class" \in DOMAIN frag_data[j]}}
            /\ \A i \in 1..n : \A j \in 1..n : i < j => ch.classes[i] < ch.classes[j]
            /\ Len(ch.avg_waste) = n /\ Len(ch.avg_efficiency) = n
            /\ \A i \in 1..n :
                  LET rows == ClassRows(ch.classes[i])
                  IN  /\ RatMul(ch.avg_waste[i], RatOfInt(Len(rows)))
                           = RatOfInt(SumWasted(rows))
                      /\ RatMul(ch.avg_efficiency[i], RatOfInt(Len(rows)))
                           = SumEfficiency(rows)

\* records (64,10,90) and (64,20,80) next to a record of class 128
C6_Witness ==
    /\ "fragmentation" \in artifacts
    /\ Len(frag_data) = 3
    /\ charts["fragmentation"].classes = <<64, 128>>
    /\ charts["fragmentation"].avg_waste[1] = <<15, 1>>
    /\ charts["fragmentation"].avg_efficiency[1] = <<85, 1>>

\* --- C7
\* C7: the rss_churn group is the loaded records with `cycle` and `rss_mib`
\* in arrival order (file order, then row order); the baseline and final RSS
\* of the chart are the rss_mib of its first and last record, and
\* growth * initial = (final - initial) * 100.
C7_GrowthFromFirstAndLast ==
    "rss_over_time" \in artifacts =>
        LET ch == charts["rss_over_time"]
            first == py_float(rss_data[1]["rss_mib"]).val
            last  == py_float(rss_data[Len(rss_data)]["rss_mib"]).val
        IN  /\ rss_data = SelectSeq(LoadAll(input_files), IsRss)
            /\ ch.rss_initial = first
            /\ ch.rss_final = last
            /\ RatMul(ch.growth_pct, first)
                 = RatMul(RatSub(last, first), RatOfInt(100))

\* the sequence [100.0, 100.0, 102.4], whose cycles are not ascending
C7_Witness ==
    /\ "rss_over_time" \in artifacts
    /\ charts["rss_over_time"].rss_values = <<<<100, 1>>, <<100, 1>>, <<512, 5>>>>
    /\ charts["rss_over_time"].cycles = <<1, 1, 0>>
    /\ charts["rss_over_time"].growth_pct = <<12, 5>>

\* --- C8
AllZero(ch) == ch.p50 = RatZero /\ ch.p99 = RatZero /\ ch.p999 = RatZero

\* C8: in a finished run that classified its records, the summary card was
\* called exactly when the latency or the fragmentation group is non-empty;
\* when called it did not raise and wrote the summary artifact, with zero
\* percentiles when no `alloc` record exists and zero average efficiency
\* when the fragmentation group is empty.
C8_SummaryGuardedDefaults ==
    (pc = "done" /\ Classified) =>
        /\ Called("plot_summary_card")
              <=> (latency_data # <<>> \/ frag_data # <<>>)
        /\ Called("plot_summary_card") =>
              /\ raised.where # "plot_summary_card"
              /\ "summary" \in artifacts
              /\ RowsWithOp(latency_data, Alloc) = <<>> => AllZero(charts["summary"])
              /\ frag_data = <<>> => charts["summary"].avg_efficiency = RatZero

\* C9: no run of plot_rss_over_time ends in a division by zero.
C9_NoDivisionByZero == raised.err # "ZeroDivisionError"

\* --- C10
IsFirstWithOp(data, i, op) ==
    /\ HasOp(data[i], op)
    /\ \A j \in 1..(i - 1) : ~HasOp(data[j], op)

PctOf(row, m) == IF m \in DOMAIN row THEN py_float(row[m]).val ELSE RatZero

PctsOf(row) ==
    <<PctOf(row, "p50_ns"), PctOf(row, "p95_ns"),
      PctOf(row, "p99_ns"), PctOf(row, "p999_ns")>>

Zeros4 == <<RatZero, RatZero, RatZero, RatZero>>

HasAlloc == \E i \in 1..Len(latency_data) : HasOp(latency_data[i], Alloc)
HasFree == \E i \in 1..Len(latency_data) : HasOp(latency_data[i], Free)

\* C10: every latency chart shows the percentiles of the first `alloc`
\* record (and of the first `free` record, or four zeros when there is
\* none); without an `alloc` record neither latency chart is written.
C10_FirstRecordPerOp ==
    /\ "latency_percentiles" \in artifacts =>
          /\ \E i \in 1..Len(latency_data) :
                /\ IsFirstWithOp(latency_data, i, Alloc)
                /\ charts["latency_percentiles"].alloc_vals = PctsOf(latency_data[i])
          /\ HasFree =>
                \E i \in 1..Len(latency_data) :
                    /\ IsFirstWithOp(latency_data, i, Free)
                    /\ charts["latency_percentiles"].free_vals = PctsOf(latency_data[i])
          /\ ~HasFree => charts["latency_percentiles"].free_vals = Zeros4
    /\ "latency_cdf" \in artifacts =>
          \E i \in 1..Len(latency_data) :
              /\ IsFirstWithOp(latency_data, i, Alloc)
              /\ charts["latency_cdf"].latencies = PctsOf(latency_data[i])
    /\ ("summary" \in artifacts /\ HasAlloc) =>
          \E i \in 1..Len(latency_data) :
              /\ IsFirstWithOp(latency_data, i, Alloc)
              /\ charts["summary"].p50 = PctOf(latency_data[i], "p50_ns")
              /\ charts["summary"].p99 = PctOf(latency_data[i], "p99_ns")
              /\ charts["summary"].p999 = PctOf(latency_data[i], "p999_ns")
    /\ ~HasAlloc =>
          /\ "latency_percentiles" \notin artifacts
          /\ "latency_cdf" \notin artifacts

\* two `alloc` records with different figures and no `free` record
C10_Witness ==
    /\ {"latency_percentiles", "latency_cdf", "summary"} \subseteq artifacts
    /\ Len(RowsWithOp(latency_data, Alloc)) >= 2
    /\ PctsOf(RowsWithOp(latency_data, Alloc)[1])
         # PctsOf(RowsWithOp(latency_data, Alloc)[2])
    /\ ~HasFree
    /\ charts["latency_percentiles"].free_vals = Zeros4

====
